---- MODULE Spec2Model ----
(***************************************************************************)
(* Model of the 102shows core: the ColorCycle lightshow template           *)
(* (server/lightshows/templates/colorcycle.py) and the APA102 strip driver *)
(* (server/drivers/apa102.py).                                             *)
(*                                                                         *)
(* Spec        the ColorCycle engine: set_parameter / check_runnable calls *)
(*             followed by one run(), stepped statement by statement so    *)
(*             that a KeyboardInterrupt can arrive between any two of them.*)
(* DriverSpec  the APA102 driver: construction followed by any sequence of *)
(*             driver calls, one action per call.                          *)
(***************************************************************************)
EXTENDS Integers, Sequences, FiniteSets, TLC

VARIABLES
    \* ---- ColorCycle (colorcycle.py) ----
    pause_sec,            \* self.pause_sec
    num_steps_per_cycle,  \* self.num_steps_per_cycle
    num_cycles,           \* self.num_cycles
    pc,                   \* position of the engine thread
    mode,                 \* "try": inside the try block of run(); "except": inside its handler
    currentStep,          \* loop variable of run()
    currentCycle,         \* loop variable of run()
    needRepaint,          \* value returned by the last update()
    exc,                  \* outcome of the last call: "none" or the exception raised
    spi_open,             \* the strip's transport handle is open
    interrupts,           \* number of KeyboardInterrupts delivered so far
    log,                  \* history: the hook / strip calls made by run(), in order
    cleanups,             \* history: number of cleanup() calls made by run()
    cleanupTrace,         \* history: the calls made by the current cleanup()
    before,               \* history: the three options before the last set_parameter
    lastCall,             \* history: the last set_parameter call <<name, value>>
    \* ---- APA102 (apa102.py) ----
    num_leds,             \* self.num_leds
    leds,                 \* self.leds, the frame buffer
    synced_buffer,        \* self.synced_buffer, the mirror
    xfer,                 \* the bytes handed to spi.xfer2 by the last call (<<>> if none)
    dpc,                  \* "new": not constructed, "ready": constructed, "failed"
    lastOp,               \* history: the last driver call <<name, first argument, other arguments>>
    spi,                  \* self.spi: "none" before spidev.SpiDev() is opened, then "open"
    sync_pc,              \* "idle", or the copy loop that is running: "up" / "down"
    sync_i,               \* the index the running copy loop handles next
    start_dst,            \* history: the destination buffer when the running copy began (<<>> if none runs)
    dirty,                \* history: another process wrote the mirror during the running copy
    observed,             \* history: the mirror as the other process read it since the last copy returned (<<>> if it did not)
    other_ops             \* number of mirror accesses made by the other process

engineVars == <<pause_sec, num_steps_per_cycle, num_cycles, pc, mode, currentStep,
                currentCycle, needRepaint, exc, spi_open, interrupts, log, cleanups,
                cleanupTrace, before, lastCall>>

\* the state of the element-wise copy loops and of the process at the other end
\* of the mirror
syncVars == <<sync_pc, sync_i, start_dst, dirty, observed, other_ops>>

driverVars == <<num_leds, leds, synced_buffer, xfer, dpc, lastOp, spi, syncVars>>

vars == <<engineVars, driverVars>>

----------------------------------------------------------------------------
(* Bounds *)

\* largest integer offered to set_parameter
MaxParam == 2
\* number of KeyboardInterrupts that may arrive during one run()
MaxInterrupts == 1
\* largest strip constructed successfully
MaxLeds == 2
\* rotate is called with positions in -MaxRotate..MaxRotate
MaxRotate == 3
\* spi_end_frame is evaluated for 1..MaxEndFrameLeds pixels
MaxEndFrameLeds == 48
MaxSyncLeds == 1
MaxOtherOps == 1

----------------------------------------------------------------------------
(* Python values offered as parameter values *)

None == [t |-> "none", v |-> 0]
IntV(n) == [t |-> "int", v |-> n]
\* a float, v counted in halves: FloatV(1) is 0.5
FloatV(h) == [t |-> "float", v |-> h]
StrV == [t |-> "str", v |-> 0]

Values == {IntV(n) : n \in -1..MaxParam} \cup {FloatV(h) : h \in {-1, 0, 1}} \cup {StrV}

ParamNames == {"pause_sec", "num_steps_per_cycle", "num_cycles", "brightness"}

\* Python truth value of a parameter value (`not x` is its negation)
Truthy(x) == CASE x.t = "none" -> FALSE
               [] x.t = "str" -> TRUE
               [] OTHER -> x.v # 0

\* verify.not_negative_numeric: passes for a number >= 0
not_negative_numeric(value) == value.t \in {"int", "float"} /\ value.v >= 0

\* verify.positive_integer: passes for an integer > 0
positive_integer(value) == value.t = "int" /\ value.v > 0

----------------------------------------------------------------------------
(* ColorCycle *)

NoExc == <<"none", "">>
NoCall == <<"", None>>
NoOptions == <<None, None, None>>

\* an entry of the history log; update entries carry (step, cycle, result)
Ev(name) == <<name, 0, 0, FALSE>>
UpdateEv(step, cycle, ret) == <<"update", step, cycle, ret>>
\* time.sleep(sec)
PauseEv(sec) == <<"pause", sec, 0, FALSE>>

\* the statements of cleanup(), in program order; "clear" and "clear_show" are the
\* two halves of strip.clearStrip(), "strip_cleanup" is strip.cleanup()
CleanupBodyReleaseFirst == <<"strip_cleanup", "shutdown", "clear", "clear_show", "cleanup_ret">>
CleanupBody == <<"shutdown", "clear", "clear_show", "strip_cleanup", "cleanup_ret">>

\* the statement that follows statement p in a straight-line body
NextIn(body, p) == body[(CHOOSE k \in 1..Len(body) : body[k] = p) + 1]

\* the positions of the engine thread inside run()
RunPcs == {"init", "show0", "update", "show", "sleep", "cycle", "call_cleanup",
           "shutdown", "clear", "clear_show", "strip_cleanup", "cleanup_ret"}

\* init_parameters(): all three options unset
init_parameters ==
    /\ pause_sec = None
    /\ num_steps_per_cycle = None
    /\ num_cycles = None

EngineInit ==
    /\ init_parameters
    /\ pc = "idle"
    /\ mode = "try"
    /\ currentStep = 0
    /\ currentCycle = 0
    /\ needRepaint = FALSE
    /\ exc = NoExc
    /\ spi_open = TRUE
    /\ interrupts = 0
    /\ log = <<>>
    /\ cleanups = 0
    /\ cleanupTrace = <<>>
    /\ before = NoOptions
    /\ lastCall = NoCall

runVars == <<mode, currentStep, currentCycle, needRepaint, spi_open, interrupts, log,
             cleanups, cleanupTrace>>

\* a mutant of set_parameter: stores the value before it is verified
set_parameter_store_first(param_name, value) ==
    /\ pc = "idle"
    /\ before' = <<pause_sec, num_steps_per_cycle, num_cycles>>
    /\ lastCall' = <<param_name, value>>
    /\ IF param_name = "pause_sec" THEN
            /\ pause_sec' = value
            /\ exc' = IF not_negative_numeric(value) THEN NoExc ELSE <<"invalid", param_name>>
            /\ UNCHANGED <<num_steps_per_cycle, num_cycles>>
       ELSE IF param_name = "num_steps_per_cycle" THEN
            /\ num_steps_per_cycle' = value
            /\ exc' = IF positive_integer(value) THEN NoExc ELSE <<"invalid", param_name>>
            /\ UNCHANGED <<pause_sec, num_cycles>>
       ELSE IF param_name = "num_cycles" THEN
            /\ num_cycles' = value
            /\ exc' = IF positive_integer(value) THEN NoExc ELSE <<"invalid", param_name>>
            /\ UNCHANGED <<pause_sec, num_steps_per_cycle>>
       ELSE /\ exc' = <<"unknown", param_name>>
            /\ UNCHANGED <<pause_sec, num_steps_per_cycle, num_cycles>>
    /\ UNCHANGED <<pc, runVars>>
    /\ UNCHANGED driverVars

\* set_parameter(param_name, value): verify, then store; the verifier raises
\* before the assignment is reached
set_parameter(param_name, value) ==
    /\ pc = "idle"
    /\ before' = <<pause_sec, num_steps_per_cycle, num_cycles>>
    /\ lastCall' = <<param_name, value>>
    /\ IF param_name = "pause_sec" THEN
            /\ pause_sec' = IF not_negative_numeric(value) THEN value ELSE pause_sec
            /\ exc' = IF not_negative_numeric(value) THEN NoExc ELSE <<"invalid", param_name>>
            /\ UNCHANGED <<num_steps_per_cycle, num_cycles>>
       ELSE IF param_name = "num_steps_per_cycle" THEN
            /\ num_steps_per_cycle' = IF positive_integer(value) THEN value
                                      ELSE num_steps_per_cycle
            /\ exc' = IF positive_integer(value) THEN NoExc ELSE <<"invalid", param_name>>
            /\ UNCHANGED <<pause_sec, num_cycles>>
       ELSE IF param_name = "num_cycles" THEN
            /\ num_cycles' = IF positive_integer(value) THEN value ELSE num_cycles
            /\ exc' = IF positive_integer(value) THEN NoExc ELSE <<"invalid", param_name>>
            /\ UNCHANGED <<pause_sec, num_steps_per_cycle>>
       ELSE /\ exc' = <<"unknown", param_name>>
            /\ UNCHANGED <<pause_sec, num_steps_per_cycle, num_cycles>>
    /\ UNCHANGED <<pc, runVars>>
    /\ UNCHANGED driverVars

\* the exception check_runnable() raises for the given option values
MissingParameter(p, s, c) ==
    IF ~Truthy(p) THEN <<"missing", "pause_sec">>
    ELSE IF ~Truthy(s) THEN <<"missing", "num_steps_per_cycle">>
    ELSE IF ~Truthy(c) THEN <<"missing", "num_cycles">>
    ELSE NoExc

check_runnable ==
    /\ pc = "idle"
    /\ exc' = MissingParameter(pause_sec, num_steps_per_cycle, num_cycles)
    /\ before' = NoOptions
    /\ lastCall' = <<"check_runnable", None>>
    /\ UNCHANGED <<pause_sec, num_steps_per_cycle, num_cycles, pc, runVars>>
    /\ UNCHANGED driverVars

optionVars == <<pause_sec, num_steps_per_cycle, num_cycles>>

\* an exception other than KeyboardInterrupt leaves run() through neither branch
Raise(e) ==
    /\ pc' = "raised"
    /\ exc' = <<e, "">>

\* run() is entered: the try block starts
run_enter ==
    /\ pc = "idle"
    /\ pc' = "init"
    /\ mode' = "try"
    /\ exc' = NoExc
    /\ before' = NoOptions
    /\ lastCall' = NoCall
    /\ UNCHANGED <<optionVars, currentStep, currentCycle, needRepaint, spi_open,
                   interrupts, log, cleanups, cleanupTrace>>
    /\ UNCHANGED driverVars

\* line 91: self.init(self.strip)
run_init ==
    /\ pc = "init"
    /\ log' = Append(log, Ev("init"))
    /\ pc' = "show0"
    /\ UNCHANGED <<optionVars, mode, currentStep, currentCycle, needRepaint, exc,
                   spi_open, interrupts, cleanups, cleanupTrace, before, lastCall>>
    /\ UNCHANGED driverVars

\* lines 92-95: self.strip.show(); currentCycle = 0; the for loop is entered
run_show0 ==
    /\ pc = "show0"
    /\ spi_open
    /\ log' = Append(log, Ev("show"))
    /\ currentCycle' = 0
    /\ IF num_steps_per_cycle.t # "int"
       THEN Raise("TypeError") /\ UNCHANGED currentStep
       ELSE pc' = "update" /\ currentStep' = 0 /\ UNCHANGED exc
    /\ UNCHANGED <<optionVars, mode, needRepaint, spi_open, interrupts, cleanups,
                   cleanupTrace, before, lastCall>>
    /\ UNCHANGED driverVars

\* a mutant of run_update: repaints after every update
run_update_always_show ==
    /\ pc = "update"
    /\ \E r \in BOOLEAN :
        /\ needRepaint' = r
        /\ log' = Append(log, UpdateEv(currentStep, currentCycle, r))
        /\ pc' = "show"
    /\ UNCHANGED <<optionVars, mode, currentStep, currentCycle, exc, spi_open,
                   interrupts, cleanups, cleanupTrace, before, lastCall>>
    /\ UNCHANGED driverVars

\* lines 96-97: needRepaint = self.update(currentStep, currentCycle)
run_update ==
    /\ pc = "update"
    /\ \E r \in BOOLEAN :
        /\ needRepaint' = r
        /\ log' = Append(log, UpdateEv(currentStep, currentCycle, r))
        /\ pc' = IF r THEN "show" ELSE "sleep"
    /\ UNCHANGED <<optionVars, mode, currentStep, currentCycle, exc, spi_open,
                   interrupts, cleanups, cleanupTrace, before, lastCall>>
    /\ UNCHANGED driverVars

\* line 98: self.strip.show()
run_show ==
    /\ pc = "show"
    /\ spi_open
    /\ log' = Append(log, Ev("show"))
    /\ pc' = "sleep"
    /\ UNCHANGED <<optionVars, mode, currentStep, currentCycle, needRepaint, exc,
                   spi_open, interrupts, cleanups, cleanupTrace, before, lastCall>>
    /\ UNCHANGED driverVars

\* line 99, then the next iteration of the for loop of line 95
run_sleep ==
    /\ pc = "sleep"
    /\ IF pause_sec.t = "none"
       THEN Raise("TypeError") /\ UNCHANGED <<log, currentStep>>
       ELSE /\ log' = Append(log, PauseEv(pause_sec))
            /\ UNCHANGED exc
            /\ IF currentStep + 1 < num_steps_per_cycle.v
               THEN currentStep' = currentStep + 1 /\ pc' = "update"
               ELSE pc' = "cycle" /\ UNCHANGED currentStep
    /\ UNCHANGED <<optionVars, mode, currentCycle, needRepaint, spi_open, interrupts,
                   cleanups, cleanupTrace, before, lastCall>>
    /\ UNCHANGED driverVars

\* a mutant of run_cycle: runs one cycle too many
run_cycle_off_by_one ==
    /\ pc = "cycle"
    /\ currentCycle' = currentCycle + 1
    /\ IF num_cycles.t # "int"
       THEN Raise("TypeError") /\ UNCHANGED currentStep
       ELSE /\ UNCHANGED exc
            /\ IF num_cycles.v # -1 /\ currentCycle' > num_cycles.v
               THEN pc' = "call_cleanup" /\ UNCHANGED currentStep
               ELSE pc' = "update" /\ currentStep' = 0
    /\ UNCHANGED <<optionVars, mode, needRepaint, spi_open, interrupts, log, cleanups,
                   cleanupTrace, before, lastCall>>
    /\ UNCHANGED driverVars

\* lines 100-102: currentCycle += 1; leave the while loop or start the next cycle
run_cycle ==
    /\ pc = "cycle"
    /\ currentCycle' = currentCycle + 1
    /\ IF num_cycles.t # "int"
       THEN Raise("TypeError") /\ UNCHANGED currentStep
       ELSE /\ UNCHANGED exc
            /\ IF num_cycles.v # -1 /\ currentCycle' >= num_cycles.v
               THEN pc' = "call_cleanup" /\ UNCHANGED currentStep
               ELSE pc' = "update" /\ currentStep' = 0
    /\ UNCHANGED <<optionVars, mode, needRepaint, spi_open, interrupts, log, cleanups,
                   cleanupTrace, before, lastCall>>
    /\ UNCHANGED driverVars

\* line 104 (mode "try") or line 108 (mode "except"): self.cleanup() is called
run_call_cleanup ==
    /\ pc = "call_cleanup"
    /\ cleanups' = cleanups + 1
    /\ cleanupTrace' = <<>>
    /\ pc' = CleanupBody[1]
    /\ UNCHANGED <<optionVars, mode, currentStep, currentCycle, needRepaint, exc,
                   spi_open, interrupts, log, before, lastCall>>
    /\ UNCHANGED driverVars

\* line 79: self.shutdown(self.strip)
cleanup_shutdown ==
    /\ pc = "shutdown"
    /\ log' = Append(log, Ev("shutdown"))
    /\ cleanupTrace' = Append(cleanupTrace, "shutdown")
    /\ pc' = NextIn(CleanupBody, pc)
    /\ UNCHANGED <<optionVars, mode, currentStep, currentCycle, needRepaint, exc,
                   spi_open, interrupts, cleanups, before, lastCall>>
    /\ UNCHANGED driverVars

\* line 80, first half of strip.clearStrip(): every pixel is set to off
clearStrip_clear ==
    /\ pc = "clear"
    /\ log' = Append(log, Ev("clear"))
    /\ cleanupTrace' = Append(cleanupTrace, "clear")
    /\ pc' = NextIn(CleanupBody, pc)
    /\ UNCHANGED <<optionVars, mode, currentStep, currentCycle, needRepaint, exc,
                   spi_open, interrupts, cleanups, before, lastCall>>
    /\ UNCHANGED driverVars

\* line 80, second half of strip.clearStrip(): the cleared buffer is shown
clearStrip_show ==
    /\ pc = "clear_show"
    /\ spi_open
    /\ log' = Append(log, Ev("show"))
    /\ cleanupTrace' = Append(cleanupTrace, "show")
    /\ pc' = NextIn(CleanupBody, pc)
    /\ UNCHANGED <<optionVars, mode, currentStep, currentCycle, needRepaint, exc,
                   spi_open, interrupts, cleanups, before, lastCall>>
    /\ UNCHANGED driverVars

\* line 82: self.strip.cleanup() closes the SPI device
strip_cleanup ==
    /\ pc = "strip_cleanup"
    /\ spi_open' = FALSE
    /\ log' = Append(log, Ev("release"))
    /\ cleanupTrace' = Append(cleanupTrace, "release")
    /\ pc' = NextIn(CleanupBody, pc)
    /\ UNCHANGED <<optionVars, mode, currentStep, currentCycle, needRepaint, exc,
                   interrupts, cleanups, before, lastCall>>
    /\ UNCHANGED driverVars

\* line 83, then cleanup() and run() return
cleanup_return ==
    /\ pc = "cleanup_ret"
    /\ pc' = "done"
    /\ UNCHANGED <<optionVars, mode, currentStep, currentCycle, needRepaint, exc,
                   spi_open, interrupts, log, cleanups, cleanupTrace, before, lastCall>>
    /\ UNCHANGED driverVars

\* spi.xfer2 fails inside a show(): always on a closed device, possibly on an
\* open one; the error is not a KeyboardInterrupt and leaves run()
show_fails ==
    /\ pc \in {"show0", "show", "clear_show"}
    /\ Raise("TransportError")
    /\ UNCHANGED <<optionVars, mode, currentStep, currentCycle, needRepaint, spi_open,
                   interrupts, log, cleanups, cleanupTrace, before, lastCall>>
    /\ UNCHANGED driverVars

\* a mutant of KeyboardInterrupt: the cancellation is only noted and the loop
\* runs on
KeyboardInterrupt_deferred ==
    /\ pc \in RunPcs
    /\ interrupts < MaxInterrupts
    /\ interrupts' = interrupts + 1
    /\ IF mode = "try"
       THEN mode' = "except" /\ UNCHANGED <<pc, exc>>
       ELSE Raise("KeyboardInterrupt") /\ UNCHANGED mode
    /\ UNCHANGED <<optionVars, currentStep, currentCycle, needRepaint, spi_open, log,
                   cleanups, cleanupTrace, before, lastCall>>
    /\ UNCHANGED driverVars

\* lines 106-108: a KeyboardInterrupt arrives while run() is executing; inside
\* the try block it is caught and the handler calls cleanup(), inside the
\* handler it leaves run()
KeyboardInterrupt ==
    /\ pc \in RunPcs
    /\ interrupts < MaxInterrupts
    /\ interrupts' = interrupts + 1
    /\ IF mode = "try"
       THEN mode' = "except" /\ pc' = "call_cleanup" /\ UNCHANGED exc
       ELSE Raise("KeyboardInterrupt") /\ UNCHANGED mode
    /\ UNCHANGED <<optionVars, currentStep, currentCycle, needRepaint, spi_open, log,
                   cleanups, cleanupTrace, before, lastCall>>
    /\ UNCHANGED driverVars

EngineNext ==
    \/ \E param_name \in ParamNames, value \in Values : set_parameter(param_name, value)
    \/ check_runnable
    \/ run_enter
    \/ run_init
    \/ run_show0
    \/ run_update
    \/ run_show
    \/ run_sleep
    \/ run_cycle
    \/ run_call_cleanup
    \/ cleanup_shutdown
    \/ clearStrip_clear
    \/ clearStrip_show
    \/ strip_cleanup
    \/ cleanup_return
    \/ show_fails
    \/ KeyboardInterrupt

DriverIdle ==
    /\ num_leds = 0
    /\ leds = <<>>
    /\ synced_buffer = <<>>
    /\ xfer = <<>>
    /\ dpc = "new"
    /\ lastOp = <<"", 0, <<>>>>
    /\ spi = "none"
    /\ sync_pc = "idle"
    /\ sync_i = 0
    /\ start_dst = <<>>
    /\ dirty = FALSE
    /\ observed = <<>>
    /\ other_ops = 0

Init == EngineInit /\ DriverIdle

Next == EngineNext

Spec == Init /\ [][Next]_vars

----------------------------------------------------------------------------
(* APA102 *)

\* the strip lengths offered to the constructor: the supported ones of the
\* model, and the first unsupported one
StripSizes == (1..MaxLeds) \cup {1025}
\* the brightness values offered to the constructor and to set_brightness
Brightnesses == {50, 100}
\* the colours (red, green, blue) offered to set_pixel: off, and one with three
\* different channels
Colors == {<<0, 0, 0>>, <<1, 2, 3>>}
\* the pixel indices offered for a strip of n pixels: all valid ones, and the
\* first invalid one on either side
Indices(n) == -1..n

\* Python's round() of the rational num/den (den > 0, num >= 0): to the nearest
\* integer, a tie to the even one
Round(num, den) ==
    LET q == num \div den
        r == num % den
    IN  IF 2 * r > den THEN q + 1
        ELSE IF 2 * r < den THEN q
        ELSE IF q % 2 = 0 THEN q ELSE q + 1

\* a mutant of led_prefix: the level is truncated, not rounded
led_prefix_truncate(brightness) == (((brightness * 31) \div 100) % 32) + 224

\* led_prefix(brightness): (round(brightness / 100 * 31) & 0b00011111) | 0b11100000
led_prefix(brightness) == (Round(brightness * 31, 100) % 32) + 224

spi_start_frame == <<0, 0, 0, 0>>

\* a mutant of spi_end_frame: rounds num_leds / 16 down
spi_end_frame_round_down(n) == [k \in 1..(n \div 16) |-> 0]

spi_end_frame(n) == [k \in 1..((n + 15) \div 16) |-> 0]

\* a mutant of _set_pixel: no check for a negative led_num, so that Python's
\* negative indices reach the end of the list
_set_pixel_no_lower_check(l, n, led_num, red, green, blue) ==
    LET at(j) == IF j < 0 THEN Len(l) + j + 1 ELSE j + 1
    IN  IF led_num >= n THEN l
        ELSE [l EXCEPT ![at(4 * led_num + 3)] = red,
                       ![at(4 * led_num + 2)] = green,
                       ![at(4 * led_num + 1)] = blue]

\* a mutant of _set_pixel: writes the channels in red, green, blue order
_set_pixel_rgb_order(l, n, led_num, red, green, blue) ==
    IF led_num < 0 THEN l
    ELSE IF led_num >= n THEN l
    ELSE [l EXCEPT ![4 * led_num + 1 + 1] = red,
                   ![4 * led_num + 2 + 1] = green,
                   ![4 * led_num + 3 + 1] = blue]

\* _set_pixel on the buffer l of n pixels; Python index j is index j + 1 here
_set_pixel(l, n, led_num, red, green, blue) ==
    IF led_num < 0 THEN l
    ELSE IF led_num >= n THEN l
    ELSE [l EXCEPT ![4 * led_num + 3 + 1] = red,
                   ![4 * led_num + 2 + 1] = green,
                   ![4 * led_num + 1 + 1] = blue]

\* get_pixel(led_num) on the buffer l
get_pixel(l, led_num) ==
    <<l[4 * led_num + 3 + 1], l[4 * led_num + 2 + 1], l[4 * led_num + 1 + 1]>>

\* _set_brightness(led_num, brightness) on the buffer l
_set_brightness(l, led_num, brightness) ==
    [l EXCEPT ![4 * led_num + 1] = led_prefix(brightness)]

\* the buffer __init__ builds: [0, 0, 0, 0] * num_leds, then
\* set_global_brightness(initial_brightness) sets every pixel's prefix
InitialLeds(n, initial_brightness) ==
    [k \in 1..(4 * n) |-> IF k % 4 = 1 THEN led_prefix(initial_brightness) ELSE 0]

\* the bytes show() hands to spi.xfer2, in order
ShowBytes(l, n) == spi_start_frame \o l \o spi_end_frame(n)

\* a mutant of Rotated: the cutoff counts bytes, not 4-byte records
Rotated_byte_cutoff(l, n, positions) ==
    LET cutoff == positions % n
    IN  SubSeq(l, cutoff + 1, Len(l)) \o SubSeq(l, 1, cutoff)

\* rotate(positions) on the buffer l of n pixels
Rotated(l, n, positions) ==
    LET cutoff == 4 * (positions % n)
    IN  SubSeq(l, cutoff + 1, Len(l)) \o SubSeq(l, 1, cutoff)

\* a mutant of construct: the transport is opened before the length check
construct_open_first(n, initial_brightness) ==
    /\ dpc = "new"
    /\ num_leds' = n
    /\ lastOp' = <<"construct", n, <<initial_brightness>>>>
    /\ spi' = "open"
    /\ IF n > 1024
       THEN /\ dpc' = "failed"
            /\ UNCHANGED <<leds, synced_buffer>>
       ELSE /\ dpc' = "ready"
            /\ leds' = InitialLeds(n, initial_brightness)
            /\ synced_buffer' = leds'
    /\ UNCHANGED <<xfer, syncVars>>
    /\ UNCHANGED engineVars

\* a mutant of construct: no check of the strip length
construct_no_limit(n, initial_brightness) ==
    /\ dpc = "new"
    /\ num_leds' = n
    /\ lastOp' = <<"construct", n, <<initial_brightness>>>>
    /\ dpc' = "ready"
    /\ spi' = "open"
    /\ leds' = InitialLeds(n, initial_brightness)
    /\ synced_buffer' = leds'
    /\ UNCHANGED <<xfer, syncVars>>
    /\ UNCHANGED engineVars

\* __init__(num_leds, max_clock_speed_hz, initial_brightness)
construct(n, initial_brightness) ==
    /\ dpc = "new"
    /\ num_leds' = n
    /\ lastOp' = <<"construct", n, <<initial_brightness>>>>
    /\ IF n > 1024
       THEN /\ dpc' = "failed"
            /\ UNCHANGED <<leds, synced_buffer, spi>>
       ELSE /\ dpc' = "ready"
            /\ spi' = "open"
            /\ leds' = InitialLeds(n, initial_brightness)
            /\ synced_buffer' = leds'
    /\ UNCHANGED <<xfer, syncVars>>
    /\ UNCHANGED engineVars

set_pixel(led_num, red, green, blue) ==
    /\ dpc = "ready"
    /\ sync_pc = "idle"
    /\ leds' = _set_pixel(leds, num_leds, led_num, red, green, blue)
    /\ lastOp' = <<"set_pixel", led_num, <<red, green, blue>>>>
    /\ xfer' = <<>>
    /\ UNCHANGED <<num_leds, synced_buffer, dpc>>
    /\ UNCHANGED <<spi, syncVars>>
    /\ UNCHANGED engineVars

set_brightness(led_num, brightness) ==
    /\ dpc = "ready"
    /\ sync_pc = "idle"
    /\ leds' = _set_brightness(leds, led_num, brightness)
    /\ lastOp' = <<"set_brightness", led_num, <<brightness>>>>
    /\ xfer' = <<>>
    /\ UNCHANGED <<num_leds, synced_buffer, dpc>>
    /\ UNCHANGED <<spi, syncVars>>
    /\ UNCHANGED engineVars

show ==
    /\ dpc = "ready"
    /\ sync_pc = "idle"
    /\ xfer' = ShowBytes(leds, num_leds)
    /\ lastOp' = <<"show", 0, <<>>>>
    /\ UNCHANGED <<num_leds, leds, synced_buffer, dpc>>
    /\ UNCHANGED <<spi, syncVars>>
    /\ UNCHANGED engineVars

\* a mutant of sync_up: the copy loop stops one element early
sync_up_skip_last ==
    /\ dpc = "ready"
    /\ synced_buffer' = [i \in 1..Len(synced_buffer) |->
                            IF i < Len(leds) THEN leds[i] ELSE synced_buffer[i]]
    /\ lastOp' = <<"sync_up", 0, <<>>>>
    /\ xfer' = <<>>
    /\ UNCHANGED <<num_leds, leds, dpc>>
    /\ UNCHANGED <<spi, syncVars>>
    /\ UNCHANGED engineVars

\* sync_up(): every element of the frame buffer is copied to the mirror
sync_up ==
    /\ dpc = "ready"
    /\ sync_pc = "idle"
    /\ synced_buffer' = [i \in 1..Len(synced_buffer) |->
                            IF i <= Len(leds) THEN leds[i] ELSE synced_buffer[i]]
    /\ lastOp' = <<"sync_up", 0, <<>>>>
    /\ xfer' = <<>>
    /\ UNCHANGED <<num_leds, leds, dpc>>
    /\ UNCHANGED <<spi, syncVars>>
    /\ UNCHANGED engineVars

\* sync_down(): every element of the mirror is copied to the frame buffer
sync_down ==
    /\ dpc = "ready"
    /\ sync_pc = "idle"
    /\ leds' = [i \in 1..Len(leds) |->
                    IF i <= Len(synced_buffer) THEN synced_buffer[i] ELSE leds[i]]
    /\ lastOp' = <<"sync_down", 0, <<>>>>
    /\ xfer' = <<>>
    /\ UNCHANGED <<num_leds, synced_buffer, dpc>>
    /\ UNCHANGED <<spi, syncVars>>
    /\ UNCHANGED engineVars

rotate(positions) ==
    /\ dpc = "ready"
    /\ sync_pc = "idle"
    /\ leds' = Rotated(leds, num_leds, positions)
    /\ lastOp' = <<"rotate", positions, <<>>>>
    /\ xfer' = <<>>
    /\ UNCHANGED <<num_leds, synced_buffer, dpc>>
    /\ UNCHANGED <<spi, syncVars>>
    /\ UNCHANGED engineVars

DriverNext ==
    \/ \E n \in StripSizes, b \in Brightnesses : construct(n, b)
    \/ \E i \in Indices(num_leds), c \in Colors : set_pixel(i, c[1], c[2], c[3])
    \/ \E i \in 0..(num_leds - 1), b \in Brightnesses : set_brightness(i, b)
    \/ show
    \/ sync_up
    \/ sync_down
    \/ \E p \in -MaxRotate..MaxRotate : rotate(p)

DriverSpec == Init /\ [][DriverNext]_vars

----------------------------------------------------------------------------
(* The copy loops of sync_up() and sync_down(), one element per step, with a
   second process at the other end of the mirror *)

\* the values the other process stores into the mirror
OtherValues == {0, 7}

\* line 155: sync_up() is called, its for loop starts at index 0
sync_up_begin ==
    /\ dpc = "ready"
    /\ sync_pc = "idle"
    /\ sync_pc' = "up"
    /\ sync_i' = 0
    /\ start_dst' = synced_buffer
    /\ dirty' = FALSE
    /\ xfer' = <<>>
    /\ UNCHANGED <<num_leds, leds, synced_buffer, dpc, lastOp, spi, observed, other_ops>>
    /\ UNCHANGED engineVars

\* a mutant of sync_up_step: the element is stored one place further on
sync_up_step_shifted ==
    /\ sync_pc = "up"
    /\ sync_i < Len(leds)
    /\ synced_buffer' = [synced_buffer EXCEPT ![((sync_i + 1) % Len(leds)) + 1] = leds[sync_i + 1]]
    /\ sync_i' = sync_i + 1
    /\ UNCHANGED <<num_leds, leds, xfer, dpc, lastOp, spi, sync_pc, start_dst, dirty,
                   observed, other_ops>>
    /\ UNCHANGED engineVars

\* lines 156-157: one pass of the loop, self.synced_buffer[i] = self.leds[i]
sync_up_step ==
    /\ sync_pc = "up"
    /\ sync_i < Len(leds)
    /\ synced_buffer' = [synced_buffer EXCEPT ![sync_i + 1] = leds[sync_i + 1]]
    /\ sync_i' = sync_i + 1
    /\ UNCHANGED <<num_leds, leds, xfer, dpc, lastOp, spi, sync_pc, start_dst, dirty,
                   observed, other_ops>>
    /\ UNCHANGED engineVars

\* line 156: the loop of sync_up() is exhausted, the call returns
sync_up_return ==
    /\ sync_pc = "up"
    /\ sync_i = Len(leds)
    /\ sync_pc' = "idle"
    /\ sync_i' = 0
    /\ start_dst' = <<>>
    /\ dirty' = FALSE
    /\ observed' = <<>>
    /\ lastOp' = <<"sync_up", 0, <<>>>>
    /\ UNCHANGED <<num_leds, leds, synced_buffer, xfer, dpc, spi, other_ops>>
    /\ UNCHANGED engineVars

\* line 161: sync_down() is called, its for loop starts at index 0
sync_down_begin ==
    /\ dpc = "ready"
    /\ sync_pc = "idle"
    /\ sync_pc' = "down"
    /\ sync_i' = 0
    /\ start_dst' = leds
    /\ dirty' = FALSE
    /\ xfer' = <<>>
    /\ UNCHANGED <<num_leds, leds, synced_buffer, dpc, lastOp, spi, observed, other_ops>>
    /\ UNCHANGED engineVars

\* lines 162-163: one pass of the loop, self.leds[i] = self.synced_buffer[i]
sync_down_step ==
    /\ sync_pc = "down"
    /\ sync_i < Len(synced_buffer)
    /\ leds' = [leds EXCEPT ![sync_i + 1] = synced_buffer[sync_i + 1]]
    /\ sync_i' = sync_i + 1
    /\ UNCHANGED <<num_leds, synced_buffer, xfer, dpc, lastOp, spi, sync_pc, start_dst,
                   dirty, observed, other_ops>>
    /\ UNCHANGED engineVars

\* line 162: the loop of sync_down() is exhausted, the call returns
sync_down_return ==
    /\ sync_pc = "down"
    /\ sync_i = Len(synced_buffer)
    /\ sync_pc' = "idle"
    /\ sync_i' = 0
    /\ start_dst' = <<>>
    /\ dirty' = FALSE
    /\ observed' = <<>>
    /\ lastOp' = <<"sync_down", 0, <<>>>>
    /\ UNCHANGED <<num_leds, leds, synced_buffer, xfer, dpc, spi, other_ops>>
    /\ UNCHANGED engineVars

\* the other process stores value at index i of the mirror (the SyncedArray of
\* line 64 is shared memory); no check is made on what it stores
other_write(i, value) ==
    /\ dpc = "ready"
    /\ other_ops < MaxOtherOps
    /\ other_ops' = other_ops + 1
    /\ synced_buffer' = [synced_buffer EXCEPT ![i + 1] = value]
    /\ dirty' = (dirty \/ sync_pc # "idle")
    /\ UNCHANGED <<num_leds, leds, xfer, dpc, lastOp, spi, sync_pc, sync_i, start_dst,
                   observed>>
    /\ UNCHANGED engineVars

\* the other process reads the whole mirror
other_read ==
    /\ dpc = "ready"
    /\ other_ops < MaxOtherOps
    /\ other_ops' = other_ops + 1
    /\ observed' = synced_buffer
    /\ UNCHANGED <<num_leds, leds, synced_buffer, xfer, dpc, lastOp, spi, sync_pc, sync_i,
                   start_dst, dirty>>
    /\ UNCHANGED engineVars

SyncNext ==
    \/ \E n \in 1..MaxSyncLeds, b \in Brightnesses : construct(n, b)
    \/ \E i \in 0..(num_leds - 1), c \in Colors : set_pixel(i, c[1], c[2], c[3])
    \/ sync_up_begin
    \/ sync_up_step
    \/ sync_up_return
    \/ sync_down_begin
    \/ sync_down_step
    \/ sync_down_return
    \/ \E i \in 0..(Len(synced_buffer) - 1), v \in OtherValues : other_write(i, v)
    \/ other_read

SyncSpec == Init /\ [][SyncNext]_vars

----------------------------------------------------------------------------
(* Properties of the ColorCycle engine, checked under Spec *)

IsEv(e, name) == e[1] = name
IsUpdate(e) == e[1] = "update"
IsShutdown(e) == e[1] = "shutdown"

\* the (step, cycle) arguments of the update calls made so far, in order
UpdateCalls ==
    LET u == SelectSeq(log, IsUpdate)
    IN  [k \in 1..Len(u) |-> <<u[k][2], u[k][3]>>]

\* the calls made before teardown began: the log up to the first shutdown hook
LoopLog ==
    IF \E k \in 1..Len(log) : IsShutdown(log[k])
    THEN SubSeq(log, 1, (CHOOSE k \in 1..Len(log) :
                            /\ IsShutdown(log[k])
                            /\ \A j \in 1..(k - 1) : ~IsShutdown(log[j])) - 1)
    ELSE log

FullCleanup == <<"shutdown", "clear", "show", "release">>

IsPrefix(s, t) == Len(s) <= Len(t) /\ \A k \in 1..Len(s) : s[k] = t[k]

\* C1: every run() that returns, after completing its cycles or after a
\* KeyboardInterrupt arriving anywhere inside it, has executed cleanup() exactly
\* once: the shutdown hook that opens cleanup() ran once, not twice.
C1_CleanupExactlyOnce ==
    pc = "done" => cleanups = 1 /\ Len(SelectSeq(log, IsShutdown)) = 1

\* C2: a cleanup() performs shutdown, clear, show, release in this order; the
\* transport is released only after the other three have happened in that
\* execution of cleanup(), and a cleanup() that runs to its end did all four.
C2_CleanupOrder ==
    /\ IsPrefix(cleanupTrace, FullCleanup)
    /\ pc \in {"cleanup_ret", "done"} => cleanupTrace = FullCleanup
    /\ \A k \in 1..Len(log) :
            IsEv(log[k], "release") =>
                /\ k >= 4
                /\ IsEv(log[k - 3], "shutdown")
                /\ IsEv(log[k - 2], "clear")
                /\ IsEv(log[k - 1], "show")
    /\ ~spi_open => \E k \in 1..Len(log) : IsEv(log[k], "release")

C2_Witness ==
    /\ pc = "done"
    /\ ~spi_open
    /\ cleanupTrace = FullCleanup
    /\ interrupts = 1

\* the update calls of a complete run of S steps and C cycles: step runs over
\* 0..S-1 inside each cycle, cycle over 0..C-1
ExpectedUpdates(S, C) == [k \in 1..(S * C) |-> <<(k - 1) % S, (k - 1) \div S>>]

\* C3: with S steps per cycle and C cycles, the update calls made so far are
\* always an initial part of (0,0),(1,0),...,(S-1,0),(0,1),...,(S-1,C-1); a run
\* that was not cancelled starts cleanup() only when all S*C calls have been
\* made, and no update call follows the start of cleanup().
C3_UpdateEnumeration ==
    (pc \in RunPcs \cup {"done"} /\ num_steps_per_cycle # None /\ num_cycles # None) =>
        LET u == UpdateCalls
            n == num_steps_per_cycle.v * num_cycles.v
        IN  /\ Len(u) <= n
            /\ u = SubSeq(ExpectedUpdates(num_steps_per_cycle.v, num_cycles.v), 1, Len(u))
            /\ (interrupts = 0 /\ (cleanups > 0 \/ pc \in {"call_cleanup", "done"}))
                    => Len(u) = n
            /\ Len(SelectSeq(LoopLog, IsUpdate)) = Len(u)

C3_Witness ==
    /\ pc = "done"
    /\ interrupts = 0
    /\ num_steps_per_cycle = IntV(2)
    /\ num_cycles = IntV(2)
    /\ UpdateCalls = <<<<0, 0>>, <<1, 0>>, <<0, 1>>, <<1, 1>>>>
    /\ cleanups = 1

\* C4: before teardown the calls of run() are init, show, and then per step
\* update, a show exactly when that update returned true, and one pause of
\* pause_sec: an update is the third call or directly follows a pause, a show
\* directly follows an update that returned true, a pause directly follows
\* that show or an update that returned false.
C4_StepOrder ==
    LET l == LoopLog
    IN  /\ Len(l) >= 1 => IsEv(l[1], "init")
        /\ Len(l) >= 2 => IsEv(l[2], "show")
        /\ \A k \in 3..Len(l) :
            /\ l[k][1] \in {"update", "show", "pause"}
            /\ IsUpdate(l[k]) => (k = 3 \/ IsEv(l[k - 1], "pause"))
            /\ IsEv(l[k], "show") => (IsUpdate(l[k - 1]) /\ l[k - 1][4])
            /\ IsEv(l[k], "pause") =>
                /\ l[k][2] = pause_sec
                /\ \/ IsUpdate(l[k - 1]) /\ ~l[k - 1][4]
                   \/ IsEv(l[k - 1], "show") /\ IsUpdate(l[k - 2]) /\ l[k - 2][4]
        /\ Len(SelectSeq(log, LAMBDA e : IsEv(e, "init"))) <= 1

C4_Witness ==
    /\ pc = "done"
    /\ interrupts = 0
    /\ pause_sec = FloatV(1)
    /\ SubSeq(log, 1, 8) = <<Ev("init"), Ev("show"), UpdateEv(0, 0, TRUE), Ev("show"),
                             PauseEv(FloatV(1)), UpdateEv(1, 0, FALSE),
                             PauseEv(FloatV(1)), Ev("shutdown")>>

\* C5: check_runnable() raises the missing-parameter error naming the first
\* option (pause_sec, num_steps_per_cycle, num_cycles) that was never
\* configured, and raises nothing once all three were configured, a pause_sec
\* of 0 included.
C5_CheckRunnable ==
    lastCall[1] = "check_runnable" =>
        exc = IF pause_sec = None THEN <<"missing", "pause_sec">>
              ELSE IF num_steps_per_cycle = None THEN <<"missing", "num_steps_per_cycle">>
              ELSE IF num_cycles = None THEN <<"missing", "num_cycles">>
              ELSE NoExc

\* C6: set_parameter("num_cycles", -1) is accepted and stores -1, the value
\* run() treats as "no cycle limit".
C6_UnboundedAccepted ==
    lastCall = <<"num_cycles", IntV(-1)>> => (exc = NoExc /\ num_cycles = IntV(-1))

\* C7: set_parameter raises the unknown-parameter error for any other name and
\* the invalid-parameter error for a negative or non-numeric pause_sec and for
\* a num_steps_per_cycle that is not a positive integer; a call that raised
\* left all three options as they were, a call that returned changed exactly
\* the named option to the given value.
C7_SetParameter ==
    lastCall[1] \in ParamNames =>
        LET n == lastCall[1]
            v == lastCall[2]
            now == <<pause_sec, num_steps_per_cycle, num_cycles>>
            idx == CASE n = "pause_sec" -> 1
                     [] n = "num_steps_per_cycle" -> 2
                     [] n = "num_cycles" -> 3
                     [] OTHER -> 0
        IN  /\ idx = 0 => exc = <<"unknown", n>>
            /\ (idx = 1 /\ (v.t \notin {"int", "float"} \/ v.v < 0)) => exc = <<"invalid", n>>
            /\ (idx = 2 /\ (v.t # "int" \/ v.v <= 0)) => exc = <<"invalid", n>>
            /\ exc[1] \in {"none", "unknown", "invalid"}
            /\ exc # NoExc => now = before
            /\ exc = NoExc =>
                /\ idx # 0
                /\ now[idx] = v
                /\ \A j \in 1..3 : j # idx => now[j] = before[j]

C7_Witness ==
    /\ lastCall = <<"num_steps_per_cycle", FloatV(1)>>
    /\ exc = <<"invalid", "num_steps_per_cycle">>
    /\ num_steps_per_cycle = IntV(2)
    /\ pause_sec = FloatV(1)

\* C17: a KeyboardInterrupt delivered inside the try block of run(), the loop's
\* update, show and pause included, makes no call of its own and takes the
\* engine to the handler's cleanup(); from then on the only calls made are
\* those of cleanup() in its order, the shutdown hook first: no update, no
\* transmission of the loop and no pause follow.
C17_CancelEndsLoop ==
    [][/\ (mode = "try" /\ mode' = "except") =>
            /\ pc \in RunPcs
            /\ pc' = "call_cleanup"
            /\ log' = log
       /\ (mode = "except" /\ pc = "call_cleanup") =>
            /\ pc' \in {"shutdown", "raised"}
            /\ log' = log
            /\ pc' = "shutdown" => cleanupTrace' = <<>>
       /\ (mode = "except" /\ log' # log) =>
            /\ Len(cleanupTrace') = Len(cleanupTrace) + 1
            /\ Len(cleanupTrace') <= Len(FullCleanup)
            /\ log' = Append(log, Ev(FullCleanup[Len(cleanupTrace')]))
            /\ pc = "shutdown" <=> Len(cleanupTrace) = 0]_vars

C17_Witness ==
    /\ mode = "except"
    /\ interrupts = 1
    /\ pc = "clear"
    /\ log = <<Ev("init"), Ev("show"), UpdateEv(0, 0, TRUE), Ev("shutdown")>>

\* C18: a run() that a failed show() has left with a transport error has
\* nevertheless been through cleanup(): the shutdown hook has run and the
\* transport handle is released.
C18_CleanupOnEveryExit ==
    (pc = "raised" /\ exc = <<"TransportError", "">>) =>
        /\ ~spi_open
        /\ \E k \in 1..Len(log) : IsShutdown(log[k])

\* C19: while any of pause_sec, num_steps_per_cycle and num_cycles is unset,
\* run() has made no call: no init, no show, no update.
C19_NoCallsWhileUnset ==
    (pause_sec = None \/ num_steps_per_cycle = None \/ num_cycles = None) => log = <<>>

----------------------------------------------------------------------------
(* Properties of the APA102 driver, checked under DriverSpec *)

ValidLeds == 0..(num_leds - 1)

\* the least k with 16 * k >= n
Ceil16(n) == CHOOSE k \in 0..n : 16 * k >= n /\ (k = 0 \/ 16 * (k - 1) < n)

\* C8: a show() hands to the transport four zero bytes, then the whole frame
\* buffer, one record [prefix, blue, green, red] per pixel in index order, then
\* ceil(num_leds / 16) zero bytes and nothing else; the end frame has that
\* length for every strip length; a strip of 3 pixels at brightness 100 set to
\* red, green, blue is sent as 0,0,0,0, 255,0,0,255, 255,0,255,0, 255,255,0,0, 0.
C8_ShowWire ==
    lastOp[1] = "show" =>
        /\ Len(xfer) = 4 + 4 * num_leds + Ceil16(num_leds)
        /\ SubSeq(xfer, 1, 4) = <<0, 0, 0, 0>>
        /\ SubSeq(xfer, 5, 4 + 4 * num_leds) = leds
        /\ \A i \in ValidLeds :
            SubSeq(xfer, 4 + 4 * i + 1, 4 + 4 * i + 4) =
                <<leds[4 * i + 1], get_pixel(leds, i)[3], get_pixel(leds, i)[2],
                  get_pixel(leds, i)[1]>>
        /\ \A k \in (4 + 4 * num_leds + 1)..Len(xfer) : xfer[k] = 0
        /\ \A n \in 1..MaxEndFrameLeds :
            /\ Len(spi_end_frame(n)) = Ceil16(n)
            /\ \A k \in 1..Len(spi_end_frame(n)) : spi_end_frame(n)[k] = 0
        /\ ShowBytes(_set_pixel(_set_pixel(_set_pixel(InitialLeds(3, 100),
                        3, 0, 255, 0, 0), 3, 1, 0, 255, 0), 3, 2, 0, 0, 255), 3)
                = <<0, 0, 0, 0, 255, 0, 0, 255, 255, 0, 255, 0, 255, 255, 0, 0, 0>>

C8_Witness ==
    /\ lastOp[1] = "show"
    /\ num_leds = 2
    /\ synced_buffer # leds
    /\ xfer = <<0, 0, 0, 0, 255, 3, 2, 1, 240, 0, 0, 0, 0>>

\* C9: a set_pixel with led_num < 0 or led_num >= num_leds leaves every byte of
\* the frame buffer and of the mirror as it was, and the driver usable.
C9_OutOfRangeIgnored ==
    [][(lastOp'[1] = "set_pixel" /\ (lastOp'[2] < 0 \/ lastOp'[2] >= num_leds)) =>
            (leds' = leds /\ synced_buffer' = synced_buffer /\ dpc' = "ready")]_vars

C9_Witness ==
    /\ lastOp = <<"set_pixel", -1, <<1, 2, 3>>>>
    /\ num_leds = 2
    /\ leds = <<255, 0, 0, 0, 240, 3, 2, 1>>
    /\ synced_buffer = <<255, 3, 2, 1, 255, 0, 0, 0>>

\* C10: set_pixel(i, r, g, b) for a valid i makes get_pixel(i) return (r, g, b)
\* and changes nothing but the three colour bytes of pixel i; a set_pixel to
\* any other index, valid or not, and a set_brightness to any valid index
\* leave get_pixel(i) as it was.
C10_PixelReadback ==
    [][/\ lastOp'[1] = "set_pixel" =>
            /\ lastOp'[2] \in ValidLeds =>
                /\ get_pixel(leds', lastOp'[2]) = lastOp'[3]
                /\ Len(leds') = Len(leds)
                /\ \A k \in 1..Len(leds) :
                        k \notin {4 * lastOp'[2] + 2, 4 * lastOp'[2] + 3, 4 * lastOp'[2] + 4}
                            => leds'[k] = leds[k]
            /\ \A i \in ValidLeds \ {lastOp'[2]} : get_pixel(leds', i) = get_pixel(leds, i)
       /\ lastOp'[1] = "set_brightness" =>
            \A i \in ValidLeds : get_pixel(leds', i) = get_pixel(leds, i)]_vars

C10_Witness ==
    /\ num_leds = 2
    /\ lastOp = <<"set_brightness", 0, <<50>>>>
    /\ leds[1] = 240
    /\ get_pixel(leds, 0) = <<1, 2, 3>>
    /\ get_pixel(leds, 1) = <<0, 0, 0>>
    /\ leds[5] = 240
    /\ synced_buffer = InitialLeds(2, 100)

\* the 4-byte record of pixel i in the buffer l
Record(l, i) == SubSeq(l, 4 * i + 1, 4 * i + 4)

\* C11: rotate(p), for p of either sign and of magnitude up to and beyond
\* num_leds, cuts the buffer at a non-negative multiple of 4 below 4 * num_leds
\* and moves whole records: pixel i afterwards holds the record pixel
\* (i + p) mod num_leds held before; rotate(-p) applied to the result gives the
\* buffer back byte for byte.
C11_RotateRoundTrip ==
    [][lastOp'[1] = "rotate" =>
            LET p == lastOp'[2]
                cutoff == 4 * (p % num_leds)
            IN  /\ cutoff >= 0
                /\ cutoff % 4 = 0
                /\ cutoff < 4 * num_leds
                /\ Len(leds') = Len(leds)
                /\ \A i \in ValidLeds : Record(leds', i) = Record(leds, (i + p) % num_leds)
                /\ Rotated(leds', num_leds, -p) = leds]_vars

C11_Witness ==
    /\ lastOp = <<"rotate", -3, <<>>>>
    /\ num_leds = 2
    /\ leds = <<255, 0, 0, 0, 240, 3, 2, 1>>

\* C12: a sync_up() leaves the frame buffer as it was and makes the mirror
\* equal to it element for element; a sync_down() that directly follows it,
\* nothing else having written the mirror, leaves the frame buffer unchanged.
C12_SyncRoundTrip ==
    [][/\ lastOp'[1] = "sync_up" =>
            /\ leds' = leds
            /\ Len(synced_buffer') = Len(leds')
            /\ \A k \in 1..Len(leds') : synced_buffer'[k] = leds'[k]
       /\ (lastOp[1] = "sync_up" /\ lastOp'[1] = "sync_down") =>
            /\ leds' = leds
            /\ synced_buffer' = synced_buffer]_vars

C12_Witness ==
    /\ lastOp[1] = "sync_down"
    /\ num_leds = 2
    /\ leds = <<240, 0, 0, 0, 255, 3, 2, 1>>
    /\ synced_buffer = leds

\* C13: once constructed, the frame buffer has 4 * num_leds elements, the
\* mirror has as many, and num_leds <= 1024, whatever calls were made.
C13_BufferLengths ==
    dpc = "ready" =>
        /\ Len(leds) = 4 * num_leds
        /\ Len(synced_buffer) = Len(leds)
        /\ num_leds <= 1024

C13_Witness ==
    /\ dpc = "ready"
    /\ lastOp = <<"rotate", 3, <<>>>>
    /\ num_leds = 2
    /\ Len(leds) = 8
    /\ Len(synced_buffer) = 8
    /\ synced_buffer = <<255, 3, 2, 1, 240, 0, 0, 0>>

\* |x|
Abs(x) == IF x < 0 THEN -x ELSE x

\* led_prefix over the whole brightness range 0..100: top three bits set, low
\* five bits the integer nearest to 31 * c / 100, the even one on a tie
PrefixTable ==
    /\ \A c \in 0..100 :
            LET low == led_prefix(c) % 32
            IN  /\ led_prefix(c) \in 224..255
                /\ 2 * Abs(100 * low - 31 * c) <= 100
                /\ 2 * Abs(100 * low - 31 * c) = 100 => low % 2 = 0
    /\ led_prefix(0) = 224
    /\ led_prefix(100) = 255

\* C15: for every brightness b in 0..100 the prefix byte has its top three bits
\* set and its low five bits are the integer nearest to 31 * b / 100 (the even
\* one on a tie), 0 for b = 0 and 31 for b = 100; set_brightness(i, b) for a
\* valid i writes that byte at offset 4 * i and changes no other byte of the
\* frame buffer, and nothing of the mirror.
C15_BrightnessPrefix ==
    [][lastOp'[1] = "set_brightness" =>
            LET i == lastOp'[2]
                b == lastOp'[3][1]
            IN  /\ PrefixTable
                /\ i \in ValidLeds
                /\ leds'[4 * i + 1] = led_prefix(b)
                /\ Len(leds') = Len(leds)
                /\ \A k \in 1..Len(leds) : k # 4 * i + 1 => leds'[k] = leds[k]
                /\ synced_buffer' = synced_buffer]_vars

C15_Witness ==
    /\ lastOp = <<"set_brightness", 1, <<50>>>>
    /\ num_leds = 2
    /\ leds = <<255, 3, 2, 1, 240, 3, 2, 1>>

\* C16: a construction with num_leds > 1024 fails with the transport never
\* opened and no frame buffer and no mirror built; a construction with
\* num_leds <= 1024 opens the transport and leaves a frame buffer, and an
\* equal mirror, in which every colour byte is 0 and every prefix is the
\* prefix of initial_brightness.
C16_Construction ==
    /\ dpc = "failed" =>
        /\ lastOp[1] = "construct"
        /\ num_leds > 1024
        /\ spi = "none"
        /\ leds = <<>>
        /\ synced_buffer = <<>>
    /\ dpc = "ready" => (num_leds <= 1024 /\ spi = "open")
    /\ (dpc = "ready" /\ lastOp[1] = "construct") =>
        /\ Len(leds) = 4 * num_leds
        /\ \A i \in ValidLeds : Record(leds, i) = <<led_prefix(lastOp[3][1]), 0, 0, 0>>
        /\ synced_buffer = leds

C16_Witness ==
    /\ dpc = "failed"
    /\ lastOp = <<"construct", 1025, <<50>>>>
    /\ spi = "none"

----------------------------------------------------------------------------
(* Properties of the element-wise copies, checked under SyncSpec *)

\* bit 7, 6 and 5 of the byte v are set: v & 0xE0 == 0xE0
TopThreeBits(v) == (v \div 32) % 8 = 7

\* C14: once the strip is constructed, the first byte of every pixel's record
\* in the frame buffer has its top three bits set, also after a sync_down()
\* that copied what another process had written into the mirror.
C14_PrefixBits ==
    dpc = "ready" => \A i \in ValidLeds : TopThreeBits(leds[4 * i + 1])

\* C20: while a copy is running and no other process has written the mirror
\* since it began, the destination holds the source's elements below the loop
\* index and its own earlier elements from the index on, so it equals the
\* source once the loop is exhausted, and before that it may equal neither;
\* the source is not changed by the copy.
C20_ElementWiseCopy ==
    (sync_pc # "idle" /\ ~dirty) =>
        LET src == IF sync_pc = "up" THEN leds ELSE synced_buffer
            dst == IF sync_pc = "up" THEN synced_buffer ELSE leds
        IN  /\ Len(dst) = Len(src)
            /\ sync_i \in 0..Len(src)
            /\ \A k \in 1..Len(dst) :
                    dst[k] = IF k <= sync_i THEN src[k] ELSE start_dst[k]
            /\ sync_i = Len(src) => dst = src

C20_Witness ==
    /\ sync_pc = "up"
    /\ sync_i = 2
    /\ ~dirty
    /\ leds = <<255, 3, 2, 1>>
    /\ start_dst = <<255, 0, 0, 0>>
    /\ synced_buffer = <<255, 3, 0, 0>>
    /\ observed = synced_buffer

====
